---- MODULE Spec2Model ----
(***************************************************************************)
(* Model of src/main.py: extract_metadata (AST walk over one source        *)
(* file), DocstringGenerator (Google / NumPy / reST layouts) and run       *)
(* (generation, coverage report, pydocstyle validation and the             *)
(* attribution of violations to entities by line range).                   *)
(*                                                                         *)
(* A source file is a sequence of lines, one statement per line, each      *)
(* with its indentation level; line i of the sequence is source line i.    *)
(* A text is a sequence of lines and a line a sequence of string pieces    *)
(* (the pieces an f-string concatenates).  A percentage n / d * 100 is     *)
(* kept as the exact fraction [num, den] in lowest terms.                  *)
(***************************************************************************)
EXTENDS Integers, Sequences, FiniteSets, TLC

VARIABLES
    pc,                       \* position of run: start, extracted, generated, reported, done, raised
    source,                   \* the text read from file_path (main.py:256-257)
    style,                    \* run's style argument
    validate,                 \* run's validate argument
    nodes,                    \* the list extract_metadata returned (main.py:259)
    generated_docs,           \* main.py:262
    report,                   \* main.py:281
    entities_with_violations, \* main.py:310
    checkCalls,               \* number of invocations of pydocstyle's check (main.py:241)
    printed,                  \* what validate_docstrings printed (main.py:250)
    raised                    \* the exception run let escape, or None

vars == <<pc, source, style, validate, nodes, generated_docs, report,
          entities_with_violations, checkCalls, printed, raised>>

None == "None"

\* ------------------------------------------------------------------ bounds
MaxLines == 3
MaxViol == 2
MaxParams == 2
MaxBody == 2

Max(a, b) == IF a >= b THEN a ELSE b

\* All sequences over S of length lo..hi.
SeqsOf(S, lo, hi) == UNION {[1..n -> S] : n \in lo..hi}

\* Sequences over S without repetition, of length 0..hi.
DistinctSeqsOf(S, hi) ==
    {s \in SeqsOf(S, 0, hi) : \A i, j \in 1..Len(s) : i # j => s[i] # s[j]}

\* ------------------------------------------------------- identifier order
\* Python compares str by code point; the identifiers of the model, ascending.
IdentOrder == <<"C", "KeyError", "Module", "TypeError", "ValueError", "a", "b", "cls", "f", "self", "x">>

IdentRank(s) == CHOOSE i \in 1..Len(IdentOrder) : IdentOrder[i] = s

StrLess(a, b) == IdentRank(a) < IdentRank(b)

\* sorted(list(S)) for a set S of str (main.py:55, 80, 102)
sortedDescending(S) ==
    LET RECURSIVE Build(_)
        Build(T) == IF T = {} THEN <<>>
                    ELSE LET m == CHOOSE x \in T : \A y \in T : x = y \/ StrLess(y, x)
                         IN <<m>> \o Build(T \ {m})
    IN Build(S)

sorted(S) ==
    LET RECURSIVE Build(_)
        Build(T) == IF T = {} THEN <<>>
                    ELSE LET m == CHOOSE x \in T : \A y \in T : x = y \/ StrLess(x, y)
                         IN <<m>> \o Build(T \ {m})
    IN Build(S)

\* ------------------------------------------------------------ source text
\* Statements, one per line.
DefStmt(ind, name, args, returns) ==
    [kind |-> "def", indent |-> ind, name |-> name, args |-> args, returns |-> returns]
ClassStmt(ind, name) == [kind |-> "class", indent |-> ind, name |-> name]
DocStmt(ind) == [kind |-> "doc", indent |-> ind]
PassStmt(ind) == [kind |-> "pass", indent |-> ind]
ReturnStmt(ind, hasValue) == [kind |-> "return", indent |-> ind, value |-> hasValue]
YieldStmt(ind) == [kind |-> "yield", indent |-> ind]
RaiseStmt(ind, exc) == [kind |-> "raise", indent |-> ind, exc |-> exc]
AssignStmt(ind, id) == [kind |-> "assign", indent |-> ind, target |-> id]

IsCompound(s) == s.kind \in {"def", "class"}

\* Python's block grammar as ast.parse applies it (main.py:129): no
\* unexpected indent, an indented block after every def/class header.
GrammarOK(src) ==
    /\ Len(src) > 0 => src[1].indent = 0
    /\ \A i \in 2..Len(src) :
          IF IsCompound(src[i - 1])
          THEN src[i].indent = src[i - 1].indent + 1
          ELSE src[i].indent <= src[i - 1].indent
    /\ Len(src) > 0 => ~IsCompound(src[Len(src)])

\* ast.parse(source_code): the tree, or SyntaxError.
astParseLenient(src) == [ok |-> TRUE, tree |-> src]

astParse(src) == IF GrammarOK(src) THEN [ok |-> TRUE, tree |-> src]
                 ELSE [ok |-> FALSE, tree |-> <<>>]

\* The tree: node 0 is the Module, node i > 0 the statement of line i.  The
\* parent of a statement is the nearest header above it that is indented less.
Parent(tree, i) ==
    LET above == {j \in 1..(i - 1) : tree[j].indent < tree[i].indent}
    IN IF above = {} THEN 0 ELSE CHOOSE j \in above : \A k \in above : k <= j

\* node.body in source order.
Body(tree, n) ==
    LET RECURSIVE Collect(_)
        Collect(i) == IF i > Len(tree) THEN <<>>
                      ELSE (IF Parent(tree, i) = n THEN <<i>> ELSE <<>>) \o Collect(i + 1)
    IN Collect(1)

\* ast.walk(node): breadth first, a deque of nodes still to visit.
walkBodyOnly(tree, n) == <<n>> \o Body(tree, n)

walk(tree, n) ==
    LET RECURSIVE Visit(_)
        Visit(todo) == IF todo = <<>> THEN <<>>
                       ELSE <<Head(todo)>> \o Visit(Tail(todo) \o Body(tree, Head(todo)))
    IN Visit(<<n>>)

\* node.end_lineno: the last line of the node's block.
EndLineno(tree, i) ==
    LET inside == {k \in i..Len(tree) : \A m \in (i + 1)..k : tree[m].indent > tree[i].indent}
    IN CHOOSE k \in inside : \A m \in inside : m <= k

\* ast.get_docstring(node) is not None: the body starts with a string expression.
HasDocstring(tree, n) ==
    LET b == Body(tree, n) IN b # <<>> /\ tree[b[1]].kind = "doc"

\* ------------------------------------------------------- extract_metadata
\* Variant of MaxLineOf: the largest start line of the module's own statements.
MaxLineOfTopLevel(tree) ==
    LET b == Body(tree, 0)
        RECURSIVE Scan(_, _)
        Scan(k, m) == IF k > Len(b) THEN m ELSE Scan(k + 1, Max(m, b[k]))
    IN Scan(1, 1)

\* main.py:134-137: the largest end_lineno of any node carrying a lineno.
MaxLineOf(tree) ==
    LET w == walk(tree, 0)
        RECURSIVE Scan(_, _)
        Scan(k, m) == IF k > Len(w) THEN m
                      ELSE IF w[k] = 0 THEN Scan(k + 1, m)
                      ELSE Scan(k + 1, Max(m, EndLineno(tree, w[k])))
    IN Scan(1, 1)

\* main.py:139-145
ModuleInfo(tree) ==
    [type |-> "module", name |-> "Module", lineno |-> 1,
     end_lineno |-> MaxLineOf(tree), has_docstring |-> HasDocstring(tree, 0)]

\* main.py:162-170: node.args.args without self and cls, each with its annotation text.
ParamsOf(args) ==
    LET RECURSIVE Each(_)
        Each(k) == IF k > Len(args) THEN <<>>
                   ELSE (IF args[k].arg \in {"self", "cls"} THEN <<>>
                         ELSE << <<args[k].arg, args[k].annotation>> >>) \o Each(k + 1)
    IN Each(1)

\* main.py:181-189: the name a raise statement contributes, if any.
RaisedNames(stmt) ==
    IF stmt.kind # "raise" THEN {}
    ELSE IF stmt.exc.form \in {"call_name", "call_attr", "name"} THEN {stmt.exc.id}
    ELSE {}

\* main.py:149-191
FunctionInfo(tree, i) ==
    LET sub == walk(tree, i)
        subnodes == {tree[sub[k]] : k \in 1..Len(sub)}
    IN [type |-> "function", name |-> tree[i].name, lineno |-> i,
        end_lineno |-> EndLineno(tree, i),
        params |-> ParamsOf(tree[i].args),
        return_type |-> tree[i].returns,
        returns |-> \E s \in subnodes : s.kind = "return" /\ s.value,
        yields |-> \E s \in subnodes : s.kind = "yield",
        raises |-> UNION {RaisedNames(s) : s \in subnodes},
        has_docstring |-> HasDocstring(tree, i)]

\* main.py:202-210: names assigned directly in the class body, in order.
AttributesOf(tree, i) ==
    LET b == Body(tree, i)
        RECURSIVE Each(_)
        Each(k) == IF k > Len(b) THEN <<>>
                   ELSE (IF tree[b[k]].kind = "assign" THEN <<tree[b[k]].target>> ELSE <<>>)
                        \o Each(k + 1)
    IN Each(1)

\* main.py:193-212
ClassInfo(tree, i) ==
    [type |-> "class", name |-> tree[i].name, lineno |-> i,
     end_lineno |-> EndLineno(tree, i),
     attributes |-> AttributesOf(tree, i),
     has_docstring |-> HasDocstring(tree, i)]

\* main.py:130-214, given the parsed tree.
extract_metadata(tree) ==
    LET w == walk(tree, 0)
        RECURSIVE Each(_)
        Each(k) ==
            IF k > Len(w) THEN <<>>
            ELSE (IF w[k] = 0 THEN <<>>
                  ELSE IF tree[w[k]].kind = "def" THEN <<FunctionInfo(tree, w[k])>>
                  ELSE IF tree[w[k]].kind = "class" THEN <<ClassInfo(tree, w[k])>>
                  ELSE <<>>) \o Each(k + 1)
    IN <<ModuleInfo(tree)>> \o Each(1)

\* ----------------------------------------------------- DocstringGenerator
Styles == {"google", "numpy", "rest"}

Q3 == "\"\"\""

\* Concatenation of a sequence of line sequences.
Flatten(ss) ==
    LET RECURSIVE Cat(_)
        Cat(k) == IF k > Len(ss) THEN <<>> ELSE ss[k] \o Cat(k + 1)
    IN Cat(1)

\* main.py:41-43
GoogleParamLines(params) ==
    Flatten([k \in 1..Len(params) |->
        LET p == params[k][1]
            t == params[k][2]
            type_hint == IF t # None THEN <<" (", t, ")">> ELSE <<>>
        IN << <<"    ", p>> \o type_hint \o <<": Description for ", p, ".">> >>])

\* main.py:48-51
GoogleReturnsLines(info) ==
    << <<>>, <<"Returns:">>,
       <<"    ">> \o (IF info.return_type # None THEN <<info.return_type, ": ">> ELSE <<>>)
                  \o <<"Description of the return value.">> >>

\* main.py:45-51: Yields, else Returns.
GoogleOutcomeLinesBoth(info) ==
    (IF info.yields
     THEN << <<>>, <<"Yields:">>, <<"    Description of the yielded values.">> >>
     ELSE <<>>)
    \o (IF info.returns THEN GoogleReturnsLines(info) ELSE <<>>)

GoogleOutcomeLines(info) ==
    IF info.yields
    THEN << <<>>, <<"Yields:">>, <<"    Description of the yielded values.">> >>
    ELSE IF info.returns THEN GoogleReturnsLines(info)
    ELSE <<>>

\* main.py:36-59
generate_google_func(info) ==
    << <<Q3, info.name, " function.">>, <<>> >>
    \o (IF info.params # <<>>
        THEN << <<"Args:">> >> \o GoogleParamLines(info.params) ELSE <<>>)
    \o GoogleOutcomeLines(info)
    \o (IF info.raises # {}
        THEN << <<>>, <<"Raises:">> >>
             \o LET rs == sorted(info.raises)
                IN [k \in 1..Len(rs) |-> <<"    ", rs[k], ": Description for ", rs[k], ".">>]
        ELSE <<>>)
    \o << <<Q3>> >>

\* main.py:66-68
NumpyParamLines(params) ==
    Flatten([k \in 1..Len(params) |->
        LET p == params[k][1]
            t == params[k][2]
            type_hint == IF t # None THEN <<" : ", t>> ELSE <<>>
        IN << <<p>> \o type_hint, <<"    Description for ", p, ".">> >>])

\* main.py:61-84
generate_numpy_func(info) ==
    << <<Q3, info.name, " function.">>, <<>> >>
    \o (IF info.params # <<>>
        THEN << <<"Parameters">>, <<"----------">> >> \o NumpyParamLines(info.params)
        ELSE <<>>)
    \o (IF info.yields
        THEN << <<>>, <<"Yields">>, <<"------">>, <<"Description of the yielded values.">> >>
        ELSE IF info.returns
        THEN << <<>>, <<"Returns">>, <<"-------">> >>
             \o (IF info.return_type # None THEN << <<info.return_type>> >> ELSE <<>>)
             \o << <<"    Description of the return value.">> >>
        ELSE <<>>)
    \o (IF info.raises # {}
        THEN << <<>>, <<"Raises">>, <<"------">> >>
             \o LET rs == sorted(info.raises)
                IN Flatten([k \in 1..Len(rs) |->
                       << <<rs[k]>>, <<"    Description for ", rs[k], ".">> >>])
        ELSE <<>>)
    \o << <<Q3>> >>

\* main.py:89-92
RestParamLines(params) ==
    Flatten([k \in 1..Len(params) |->
        LET p == params[k][1]
            t == params[k][2]
        IN << <<":param ", p, ": Description for ", p, ".">> >>
           \o (IF t # None THEN << <<":type ", p, ": ", t>> >> ELSE <<>>)])

\* main.py:86-106
generate_rest_func(info) ==
    << <<Q3, info.name, " function.">>, <<>> >>
    \o RestParamLines(info.params)
    \o (IF info.yields
        THEN << <<>>, <<":yields: Description of the yielded values.">> >>
        ELSE IF info.returns
        THEN << <<>>, <<":returns: Description of the return value.">> >>
             \o (IF info.return_type # None
                 THEN << <<":rtype: ", info.return_type>> >> ELSE <<>>)
        ELSE <<>>)
    \o (IF info.raises # {}
        THEN LET rs == sorted(info.raises)
             IN [k \in 1..Len(rs) |-> <<":raises ", rs[k], ": Description for ", rs[k], ".">>]
        ELSE <<>>)
    \o << <<Q3>> >>

\* main.py:108-124
generate_class_doc(st, info) ==
    << <<Q3, info.name, " class.">>, <<>> >>
    \o (IF info.attributes # <<>>
        THEN LET at == info.attributes IN
             IF st = "google"
             THEN << <<"Attributes:">> >>
                  \o [k \in 1..Len(at) |-> <<"    ", at[k], ": Description.">>]
             ELSE IF st = "numpy"
             THEN << <<"Attributes">>, <<"----------">> >>
                  \o Flatten([k \in 1..Len(at) |-> << <<at[k]>>, <<"    Description.">> >>])
             ELSE [k \in 1..Len(at) |-> <<":ivar ", at[k], ": Description.">>]
        ELSE <<>>)
    \o << <<Q3>> >>

\* main.py:23-34; the empty text is the empty sequence of lines.
generate(st, info) ==
    IF info.type = "function"
    THEN IF st = "google" THEN generate_google_func(info)
         ELSE IF st = "numpy" THEN generate_numpy_func(info)
         ELSE IF st = "rest" THEN generate_rest_func(info)
         ELSE <<>>
    ELSE IF info.type = "class" THEN generate_class_doc(st, info)
    ELSE <<>>

\* -------------------------------------------------------------------- run
RECURSIVE GCD(_, _)
GCD(a, b) == IF b = 0 THEN a ELSE GCD(b, a % b)

\* n / d * 100 as an exact fraction in lowest terms (d > 0).
Pct(n, d) == LET g == GCD(n * 100, d) IN [num |-> (n * 100) \div g, den |-> d \div g]

Hundred == [num |-> 100, den |-> 1]

\* sum(1 for n in nodes if n["type"] == t), and those with a docstring
CountType(ns, t) == Cardinality({k \in 1..Len(ns) : ns[k].type = t})

CountDocumented(ns, t) ==
    Cardinality({k \in 1..Len(ns) : ns[k].type = t /\ ns[k].has_docstring})

\* main.py:262-269
GenerateForAll(st, ns) ==
    [k \in 1..Len(ns) |->
        [name |-> ns[k].name, type |-> ns[k].type, docstring |-> generate(st, ns[k])]]

GenerateMissing(st, ns) ==
    LET RECURSIVE Each(_)
        Each(k) == IF k > Len(ns) THEN <<>>
                   ELSE (IF ~ns[k].has_docstring
                         THEN <<[name |-> ns[k].name, type |-> ns[k].type,
                                 docstring |-> generate(st, ns[k])]>>
                         ELSE <<>>) \o Each(k + 1)
    IN Each(1)

\* main.py:271-294
BuildReportModuleCounted(ns) ==
    LET total_funcs == CountType(ns, "function")
        total_classes == CountType(ns, "class")
        doc_funcs == CountDocumented(ns, "function")
        doc_classes == CountDocumented(ns, "class")
        has_mod_doc == \E k \in 1..Len(ns) : ns[k].type = "module" /\ ns[k].has_docstring
        total == total_funcs + total_classes + 1
        documented == doc_funcs + doc_classes + 1
    IN [total_functions |-> total_funcs, total_classes |-> total_classes,
        documented_functions |-> doc_funcs, documented_classes |-> doc_classes,
        has_module_doc |-> has_mod_doc, total |-> total, with_doc |-> documented,
        missing |-> total - documented,
        coverage_percentage |-> IF total > 0 THEN Pct(documented, total) ELSE Hundred,
        compliance |-> "PASS", compliance_percentage |-> Hundred, violations |-> <<>>]

BuildReport(ns) ==
    LET total_funcs == CountType(ns, "function")
        total_classes == CountType(ns, "class")
        doc_funcs == CountDocumented(ns, "function")
        doc_classes == CountDocumented(ns, "class")
        has_mod_doc == \E k \in 1..Len(ns) : ns[k].type = "module" /\ ns[k].has_docstring
        total == total_funcs + total_classes + 1
        documented == doc_funcs + doc_classes + (IF has_mod_doc THEN 1 ELSE 0)
    IN [total_functions |-> total_funcs, total_classes |-> total_classes,
        documented_functions |-> doc_funcs, documented_classes |-> doc_classes,
        has_module_doc |-> has_mod_doc, total |-> total, with_doc |-> documented,
        missing |-> total - documented,
        coverage_percentage |-> IF total > 0 THEN Pct(documented, total) ELSE Hundred,
        compliance |-> "PASS", compliance_percentage |-> Hundred, violations |-> <<>>]

\* What pydocstyle's check can do: yield error objects, or raise.
ErrorAt(line) ==
    [code |-> "D103", message |-> "D103: Missing docstring", line |-> line,
     short_desc |-> "Missing docstring"]

\* main.py:237-251: the violation records, or none when the checker raised.
validate_docstringsFailureRecorded(outcome) ==
    IF outcome.raises
    THEN <<[code |-> "ERR", message |-> "Validation error", line |-> 0,
            short_desc |-> "Validation error"]>>
    ELSE outcome.errors

validate_docstrings(outcome) ==
    IF outcome.raises THEN <<>>
    ELSE [k \in 1..Len(outcome.errors) |->
            [code |-> outcome.errors[k].code, message |-> outcome.errors[k].message,
             line |-> outcome.errors[k].line, short_desc |-> outcome.errors[k].short_desc]]

\* main.py:311-315: each violation goes to the first node whose span holds its line.
AttributeAllContaining(ns, vs) ==
    {ns[k].name : k \in {j \in 1..Len(ns) :
        \E i \in 1..Len(vs) : ns[j].lineno <= vs[i].line /\ vs[i].line <= ns[j].end_lineno}}

AttributeMissesCounted(ns, vs) ==
    LET RECURSIVE PerViolation(_, _)
        RECURSIVE PerNode(_, _, _)
        PerNode(v, k, acc) ==
            IF k > Len(ns) THEN acc \cup {"<unattributed>"}
            ELSE IF ns[k].lineno <= v.line /\ v.line <= ns[k].end_lineno
                 THEN acc \cup {ns[k].name}
                 ELSE PerNode(v, k + 1, acc)
        PerViolation(i, acc) ==
            IF i > Len(vs) THEN acc ELSE PerViolation(i + 1, PerNode(vs[i], 1, acc))
    IN PerViolation(1, {})

Attribute(ns, vs) ==
    LET RECURSIVE PerViolation(_, _)
        RECURSIVE PerNode(_, _, _)
        PerNode(v, k, acc) ==
            IF k > Len(ns) THEN acc
            ELSE IF ns[k].lineno <= v.line /\ v.line <= ns[k].end_lineno
                 THEN acc \cup {ns[k].name}
                 ELSE PerNode(v, k + 1, acc)
        PerViolation(i, acc) ==
            IF i > Len(vs) THEN acc ELSE PerViolation(i + 1, PerNode(vs[i], 1, acc))
    IN PerViolation(1, {})

\* main.py:305-318
Reconcile(rep, ns, vs) ==
    IF vs # <<>>
    THEN LET total == rep.total
             compliant_entities == total - Cardinality(Attribute(ns, vs))
         IN [rep EXCEPT !.violations = vs,
                        !.compliance = "FAIL",
                        !.compliance_percentage =
                            IF total > 0 THEN Pct(compliant_entities, total) ELSE Hundred]
    ELSE [rep EXCEPT !.violations = vs]

NoReport == [unset |-> TRUE]

\* main.py:256-259, the source well formed
Extract ==
    /\ pc = "start"
    /\ astParse(source).ok
    /\ nodes' = extract_metadata(astParse(source).tree)
    /\ pc' = "extracted"
    /\ UNCHANGED <<source, style, validate, generated_docs, report,
                   entities_with_violations, checkCalls, printed, raised>>

\* main.py:259 with main.py:129 raising SyntaxError, which run does not catch
ExtractFails ==
    /\ pc = "start"
    /\ ~astParse(source).ok
    /\ raised' = "SyntaxError"
    /\ pc' = "raised"
    /\ UNCHANGED <<source, style, validate, nodes, generated_docs, report,
                   entities_with_violations, checkCalls, printed>>

\* main.py:260-269
Generate ==
    /\ pc = "extracted"
    /\ generated_docs' = GenerateMissing(style, nodes)
    /\ pc' = "generated"
    /\ UNCHANGED <<source, style, validate, nodes, report,
                   entities_with_violations, checkCalls, printed, raised>>

\* main.py:271-294
Aggregate ==
    /\ pc = "generated"
    /\ report' = BuildReport(nodes)
    /\ pc' = "reported"
    /\ UNCHANGED <<source, style, validate, nodes, generated_docs,
                   entities_with_violations, checkCalls, printed, raised>>

\* main.py:296, 320 with validate false
ReturnUnvalidated ==
    /\ pc = "reported"
    /\ ~validate
    /\ pc' = "done"
    /\ UNCHANGED <<source, style, validate, nodes, generated_docs, report,
                   entities_with_violations, checkCalls, printed, raised>>

\* main.py:296-320 for one outcome of the checker
ValidateWith(outcome) ==
    /\ pc = "reported"
    /\ validate
    /\ checkCalls' = checkCalls + 1
    /\ printed' = IF outcome.raises THEN Append(printed, "Validation error") ELSE printed
    /\ LET violations == validate_docstrings(outcome)
       IN /\ report' = Reconcile(report, nodes, violations)
          /\ entities_with_violations' =
                 IF violations # <<>> THEN Attribute(nodes, violations) ELSE {}
    /\ pc' = "done"
    /\ UNCHANGED <<source, style, validate, nodes, generated_docs, raised>>

\* The lines a violation can name: those of the file and one past its last statement.
ViolationLines == 1..(MaxLines + 1)

Validate ==
    \E errs \in SeqsOf({ErrorAt(l) : l \in ViolationLines}, 0, MaxViol) :
        ValidateWith([raises |-> FALSE, errors |-> errs])

ValidateCheckerFails == ValidateWith([raises |-> TRUE, errors |-> <<>>])

\* ------------------------------------------------------------------ inputs
Arg(name, annotation) == [arg |-> name, annotation |-> annotation]

\* Files of nested definitions: def f(a, b: int) -> int, class C, a string
\* expression and pass, at any indentation, well formed or not.
StructStmts ==
    UNION {{DefStmt(d, "f", <<Arg("a", None), Arg("b", "int")>>, "int"),
            ClassStmt(d, "C"), DocStmt(d), PassStmt(d)} : d \in 0..(MaxLines - 1)}

StructSources == SeqsOf(StructStmts, 0, MaxLines)

Init ==
    /\ pc = "start"
    /\ source \in StructSources
    /\ style \in Styles
    /\ validate \in BOOLEAN
    /\ nodes = <<>>
    /\ generated_docs = <<>>
    /\ report = NoReport
    /\ entities_with_violations = {}
    /\ checkCalls = 0
    /\ printed = <<>>
    /\ raised = None

Next ==
    \/ Extract
    \/ ExtractFails
    \/ Generate
    \/ Aggregate
    \/ ReturnUnvalidated
    \/ Validate
    \/ ValidateCheckerFails

Spec == Init /\ [][Next]_vars

\* Files of one definition with its signature and a flat body: def f(...)
\* over the arguments a, b: int and self, with or without -> int, or class C.
ArgPool == {Arg("a", None), Arg("b", "int"), Arg("self", None)}

SignatureHeaders ==
    {DefStmt(0, "f", args, rt) : args \in DistinctSeqsOf(ArgPool, MaxParams), rt \in {None, "int"}}
    \cup {ClassStmt(0, "C")}

BodyPool ==
    {DocStmt(1), PassStmt(1), ReturnStmt(1, TRUE), ReturnStmt(1, FALSE), YieldStmt(1),
     RaiseStmt(1, [form |-> "call_name", id |-> "ValueError"]),
     RaiseStmt(1, [form |-> "name", id |-> "KeyError"]),
     RaiseStmt(1, [form |-> "call_attr", id |-> "TypeError"]),
     RaiseStmt(1, [form |-> "none"]),
     AssignStmt(1, "x")}

SignatureSources ==
    {<<h>> \o body : h \in SignatureHeaders, body \in SeqsOf(BodyPool, 1, MaxBody)}

InitGen ==
    /\ pc = "start"
    /\ source \in SignatureSources
    /\ style \in Styles
    /\ validate = FALSE
    /\ nodes = <<>>
    /\ generated_docs = <<>>
    /\ report = NoReport
    /\ entities_with_violations = {}
    /\ checkCalls = 0
    /\ printed = <<>>
    /\ raised = None

NextGen ==
    \/ Extract
    \/ Generate
    \/ Aggregate
    \/ ReturnUnvalidated

\* run(file_path, style) on well-formed files, validation off.
SpecGen == InitGen /\ [][NextGen]_vars

\* ================================================================= claims
Returned == pc = "done"

InSpan(n, line) == n.lineno <= line /\ line <= n.end_lineno

\* The index of the first node whose span holds the line, 0 if none does.
FirstHolder(ns, line) ==
    LET holders == {k \in 1..Len(ns) : InSpan(ns[k], line)}
    IN IF holders = {} THEN 0 ELSE CHOOSE k \in holders : \A j \in holders : k <= j

AffectedNames(ns, vs) ==
    {ns[FirstHolder(ns, vs[i].line)].name :
        i \in {j \in 1..Len(vs) : FirstHolder(ns, vs[j].line) # 0}}

\* C1: after run with validation on, every entity (function and class
\* included) whose span holds the line of a reported violation has its name
\* in the affected set, and with a single such violation the compliance
\* percentage is (total - 1) / total * 100.
C1_EntityHoldingViolationIsAffected ==
    (Returned /\ validate) =>
        /\ \A k \in 1..Len(nodes) : \A i \in 1..Len(report.violations) :
              InSpan(nodes[k], report.violations[i].line)
                  => nodes[k].name \in entities_with_violations
        /\ (Len(report.violations) = 1
            /\ \E k \in 1..Len(nodes) : InSpan(nodes[k], report.violations[1].line))
               => report.compliance_percentage = Pct(report.total - 1, report.total)

\* C2: whatever list of violations reaches the reconciliation, the verdict
\* is FAIL exactly when the list is not empty and PASS otherwise, and the
\* compliance percentage is (total - |affected|) / total * 100, affected
\* being the names of the entities a violation was attributed to (100 with
\* no violation).
C2_VerdictAndCompliancePercentage ==
    Returned =>
        /\ report.compliance = (IF report.violations # <<>> THEN "FAIL" ELSE "PASS")
        /\ report.compliance_percentage =
              (IF report.violations = <<>> THEN Hundred
               ELSE Pct(report.total - Cardinality(AffectedNames(nodes, report.violations)),
                        report.total))
        /\ report.violations # <<>> =>
              entities_with_violations = AffectedNames(nodes, report.violations)

\* two violations, one attributed and one on no entity's line, some entity left compliant
C2_Witness ==
    /\ Returned
    /\ Len(report.violations) = 2
    /\ \E i \in 1..2 : FirstHolder(nodes, report.violations[i].line) = 0
    /\ \E i \in 1..2 : FirstHolder(nodes, report.violations[i].line) # 0
    /\ report.compliance = "FAIL"
    /\ report.total = 3
    /\ report.compliance_percentage = Pct(2, 3)

CheckerRaised == printed # <<>>

\* Entities of the list by type and documentation, counted over its indices.
OfType(t) == {k \in 1..Len(nodes) : nodes[k].type = t}

DocumentedOnes == {k \in 1..Len(nodes) : nodes[k].has_docstring}

\* C3: when the checker raises during a run with validation on, the run is
\* not aborted: it returns a report whose coverage fields are those of the
\* entity list alone, with no violation, verdict PASS and compliance 100.
C3_CheckerFailureIsIsolated ==
    CheckerRaised =>
        /\ Returned
        /\ raised = None
        /\ validate
        /\ report.total_functions = Cardinality(OfType("function"))
        /\ report.total_classes = Cardinality(OfType("class"))
        /\ report.documented_functions =
              Cardinality(OfType("function") \cap DocumentedOnes)
        /\ report.documented_classes =
              Cardinality(OfType("class") \cap DocumentedOnes)
        /\ report.total = Len(nodes)
        /\ report.with_doc = Cardinality(DocumentedOnes)
        /\ report.missing = Cardinality((1..Len(nodes)) \ DocumentedOnes)
        /\ report.coverage_percentage = Pct(report.with_doc, report.total)
        /\ report.violations = <<>>
        /\ report.compliance = "PASS"
        /\ report.compliance_percentage = Hundred

\* the checker raised on a file with documented and undocumented entities
C3_Witness ==
    /\ CheckerRaised
    /\ Returned
    /\ checkCalls = 1
    /\ report.with_doc > 0
    /\ report.missing > 0

\* C4: on a source that is not well formed extract_metadata fails with the
\* parse error and run lets it escape: no entity list, no generated docs and
\* no report come back, and the checker is never invoked.
C4_ParseErrorAbortsRun ==
    /\ ~GrammarOK(source) =>
          /\ pc \in {"start", "raised"}
          /\ nodes = <<>>
          /\ generated_docs = <<>>
          /\ report = NoReport
          /\ checkCalls = 0
    /\ pc = "raised" => (raised = "SyntaxError" /\ ~GrammarOK(source))
    /\ pc # "raised" => raised = None

\* a header without a body, validation requested
C4_Witness ==
    /\ pc = "raised"
    /\ validate
    /\ Len(source) = 1
    /\ source[1].kind = "def"

Extracted == pc \in {"extracted", "generated", "reported", "done"}

Reported == pc \in {"reported", "done"}

TypeOfKind(kind) == IF kind = "def" THEN "function" ELSE "class"

\* C5: the entity list of a well-formed source starts with its only Module
\* entry, every def and class line of the source, at any depth, is exactly
\* one entry of its own, and the report's total = functions + classes + 1 is
\* the length of the list.
C5_OneModuleAndEveryDefinitionOnce ==
    /\ Extracted =>
          /\ nodes[1].type = "module"
          /\ \A k \in 2..Len(nodes) : nodes[k].type \in {"function", "class"}
          /\ \A i \in 1..Len(source) :
                IsCompound(source[i]) =>
                    Cardinality({k \in 2..Len(nodes) :
                        /\ nodes[k].lineno = i
                        /\ nodes[k].type = TypeOfKind(source[i].kind)
                        /\ nodes[k].name = source[i].name}) = 1
          /\ Len(nodes) = 1 + Cardinality({i \in 1..Len(source) : IsCompound(source[i])})
    /\ Reported =>
          /\ report.total = report.total_functions + report.total_classes + 1
          /\ report.total = Len(nodes)

\* a definition nested two levels deep is an entry of the returned list
C5_Witness ==
    /\ Returned
    /\ \E i \in 1..Len(source) : IsCompound(source[i]) /\ source[i].indent = 1
    /\ \E k \in 2..Len(nodes) : nodes[k].lineno = 2
    /\ report.total = 3

\* C6: the coverage percentage is documented / total * 100 and lies in
\* [0, 100], documented = documented functions + documented classes + 1 for a
\* documented module never exceeds total, missing = total - documented; an
\* empty file gives total 1, documented 0 and coverage 0.
C6_CoveragePercentage ==
    Reported =>
        /\ report.with_doc = report.documented_functions + report.documented_classes
                             + (IF nodes[1].has_docstring THEN 1 ELSE 0)
        /\ report.documented_functions =
              Cardinality(OfType("function") \cap DocumentedOnes)
        /\ report.documented_classes =
              Cardinality(OfType("class") \cap DocumentedOnes)
        /\ report.with_doc <= report.total
        /\ report.missing = report.total - report.with_doc
        /\ report.coverage_percentage = Pct(report.with_doc, report.total)
        /\ 0 <= report.coverage_percentage.num
        /\ report.coverage_percentage.num <= 100 * report.coverage_percentage.den
        /\ source = <<>> =>
              /\ report.total = 1
              /\ report.with_doc = 0
              /\ report.coverage_percentage = [num |-> 0, den |-> 1]

\* the empty file has been reported on
C6_Witness ==
    /\ Returned
    /\ source = <<>>
    /\ report.coverage_percentage = [num |-> 0, den |-> 1]

\* The indices of the nodes without a docstring, ascending.
Undocumented(ns) ==
    LET RECURSIVE Each(_)
        Each(k) == IF k > Len(ns) THEN <<>>
                   ELSE (IF ns[k].has_docstring THEN <<>> ELSE <<k>>) \o Each(k + 1)
    IN Each(1)

Generated == pc \in {"generated", "reported", "done"}

\* C7: run emits one generated doc for each entity without a docstring and
\* none for the others, in extraction order, so their number is the
\* report's missing count.
C7_GeneratedDocsAreTheMissingOnes ==
    /\ Generated =>
          LET und == Undocumented(nodes) IN
          /\ Len(generated_docs) = Len(und)
          /\ Len(und) = Cardinality((1..Len(nodes)) \ DocumentedOnes)
          /\ \A j \in 1..Len(generated_docs) :
                /\ generated_docs[j].name = nodes[und[j]].name
                /\ generated_docs[j].type = nodes[und[j]].type
                /\ ~nodes[und[j]].has_docstring
    /\ Reported => Len(generated_docs) = report.missing

\* three entities, the documented one skipped, the other two in extraction order
C7_Witness ==
    /\ Returned
    /\ Len(nodes) = 3
    /\ \E k \in 1..3 : nodes[k].has_docstring
    /\ Len(generated_docs) = 2
    /\ generated_docs[1].type = "module"
    /\ generated_docs[2].type = "function"

\* ------------------------------------------------ reading a generated text
Pieces(doc) == UNION {{doc[l][k] : k \in 1..Len(doc[l])} : l \in 1..Len(doc)}

HasLine(doc, line) == \E l \in 1..Len(doc) : doc[l] = line

\* The lines under the first line `header`, up to the next blank line or the
\* closing quotes.
Section(doc, header) ==
    LET starts == {l \in 1..Len(doc) : doc[l] = header}
        RECURSIVE Take(_)
        Take(l) == IF l > Len(doc) \/ doc[l] = <<>> \/ doc[l] = <<Q3>> THEN <<>>
                   ELSE <<doc[l]>> \o Take(l + 1)
    IN IF starts = {} THEN <<>>
       ELSE Take((CHOOSE l \in starts : \A m \in starts : l <= m) + 1)

\* A line "... Description for <name>." and the name it describes.
IsDescriptionLine(line) ==
    /\ Len(line) >= 3
    /\ line[Len(line)] = "."
    /\ line[Len(line) - 2] \in {": Description for ", "    Description for "}

DescribedNames(lines) ==
    LET RECURSIVE Each(_)
        Each(l) == IF l > Len(lines) THEN <<>>
                   ELSE (IF IsDescriptionLine(lines[l])
                         THEN <<lines[l][Len(lines[l]) - 1]>> ELSE <<>>) \o Each(l + 1)
    IN Each(1)

LinesStarting(doc, piece) ==
    SelectSeq(doc, LAMBDA line : Len(line) > 0 /\ line[1] = piece)

\* The parameters a text describes, in the order of their description lines.
DescribedParams(st, doc) ==
    IF st = "google" THEN DescribedNames(Section(doc, <<"Args:">>))
    ELSE IF st = "numpy" THEN DescribedNames(Section(doc, <<"Parameters">>))
    ELSE DescribedNames(LinesStarting(doc, ":param "))

\* The error names a text lists, in the order of their lines.
ListedRaises(st, doc) ==
    IF st = "google" THEN DescribedNames(Section(doc, <<"Raises:">>))
    ELSE IF st = "numpy" THEN DescribedNames(Section(doc, <<"Raises">>))
    ELSE DescribedNames(LinesStarting(doc, ":raises "))

HasYieldsSection(st, doc) ==
    IF st = "google" THEN HasLine(doc, <<"Yields:">>)
    ELSE IF st = "numpy" THEN HasLine(doc, <<"Yields">>)
    ELSE HasLine(doc, <<":yields: Description of the yielded values.">>)

HasReturnsSection(st, doc) ==
    IF st = "google" THEN HasLine(doc, <<"Returns:">>)
    ELSE IF st = "numpy" THEN HasLine(doc, <<"Returns">>)
    ELSE HasLine(doc, <<":returns: Description of the return value.">>)

ParamNames(params) == [k \in 1..Len(params) |-> params[k][1]]

\* The entity the j-th generated doc was made for.
EntityOf(j) == nodes[Undocumented(nodes)[j]]

\* C8: for every entity without a docstring (module, function or class) and
\* every convention the generated text contains the entity's name, and for a
\* function with parameters it has exactly one description line per
\* parameter, in the order of the parameters.
C8_TextNamesEntityAndParameters ==
    Generated =>
        \A j \in 1..Len(generated_docs) :
            LET info == EntityOf(j)
                doc == generated_docs[j].docstring
            IN /\ info.name \in Pieces(doc)
               /\ (info.type = "function" /\ info.params # <<>>) =>
                      DescribedParams(style, doc) = ParamNames(info.params)

\* C9: in every convention the text of a function lists each raised error
\* name exactly once, in ascending lexicographic order, whatever the order
\* of the raise statements in the source.
C9_RaisesListedSortedOnce ==
    Generated =>
        \A j \in 1..Len(generated_docs) :
            EntityOf(j).type = "function" =>
                LET listed == ListedRaises(style, generated_docs[j].docstring)
                    lineno == EntityOf(j).lineno
                IN /\ \A k \in 1..(Len(listed) - 1) : StrLess(listed[k], listed[k + 1])
                   /\ {listed[k] : k \in 1..Len(listed)} =
                         UNION {RaisedNames(source[i]) :
                                   i \in lineno..EntityOf(j).end_lineno}

\* ValueError raised above KeyError in the source, listed below it
C9_Witness ==
    /\ Returned
    /\ Len(source) = 3
    /\ RaisedNames(source[2]) = {"ValueError"}
    /\ RaisedNames(source[3]) = {"KeyError"}
    /\ \E j \in 1..Len(generated_docs) :
          /\ generated_docs[j].type = "function"
          /\ ListedRaises(style, generated_docs[j].docstring) = <<"KeyError", "ValueError">>

\* C10: in every convention the text of a function has a Yields section
\* exactly when the function is a generator and a Returns section exactly
\* when it returns a value and is no generator; with both flags set, Yields
\* and no Returns.
C10_YieldsSuppressesReturns ==
    Generated =>
        \A j \in 1..Len(generated_docs) :
            EntityOf(j).type = "function" =>
                LET info == EntityOf(j)
                    doc == generated_docs[j].docstring
                IN /\ HasYieldsSection(style, doc) <=> info.yields
                   /\ HasReturnsSection(style, doc) <=> (info.returns /\ ~info.yields)
                   /\ info.yields <=>
                         \E i \in info.lineno..info.end_lineno : source[i].kind = "yield"

\* a function that yields and returns a value: Yields, no Returns
C10_Witness ==
    /\ Returned
    /\ \E j \in 1..Len(generated_docs) :
          /\ generated_docs[j].type = "function"
          /\ EntityOf(j).yields
          /\ EntityOf(j).returns
          /\ HasYieldsSection(style, generated_docs[j].docstring)
          /\ ~HasReturnsSection(style, generated_docs[j].docstring)

NoDuplicates(seq) == \A i, j \in 1..Len(seq) : i # j => seq[i] # seq[j]

\* C11: in every extracted entity list the raised error names of a function
\* and the attribute names of a class hold no name twice, whatever the
\* source repeats.
C11_NoDuplicateRaisesOrAttributes ==
    Extracted =>
        \A k \in 1..Len(nodes) :
            /\ nodes[k].type = "function" => NoDuplicates(sorted(nodes[k].raises))
            /\ nodes[k].type = "class" => NoDuplicates(nodes[k].attributes)

\* The violations whose line no entity's span holds.
Unattributed(ns, vs) == {i \in 1..Len(vs) : FirstHolder(ns, vs[i].line) = 0}

\* C12: each violation is attributed to at most one entity, the first in
\* extraction order whose span holds its line; a violation on no entity's
\* line stays in the report's list and makes the verdict FAIL, but adds no
\* name to the affected set and does not lower the compliance percentage.
C12_FirstHolderAttributionAndMisses ==
    (Returned /\ report.violations # <<>>) =>
        LET vs == report.violations
            attributed == (1..Len(vs)) \ Unattributed(nodes, vs)
        IN /\ report.compliance = "FAIL"
           /\ entities_with_violations =
                 {nodes[FirstHolder(nodes, vs[i].line)].name : i \in attributed}
           /\ Cardinality(entities_with_violations) <= Cardinality(attributed)
           /\ attributed = {} =>
                 /\ entities_with_violations = {}
                 /\ report.compliance_percentage = Hundred
           /\ report.compliance_percentage =
                 Pct(report.total - Cardinality(entities_with_violations), report.total)

\* one violation inside a nested definition, held by three entities, and
\* one past the end of the file: only the first holder is affected
C12_Witness ==
    /\ Returned
    /\ Len(report.violations) = 2
    /\ Cardinality(Unattributed(nodes, report.violations)) = 1
    /\ \E i \in 1..2 :
          Cardinality({k \in 1..Len(nodes) : InSpan(nodes[k], report.violations[i].line)}) = 3
    /\ entities_with_violations = {nodes[1].name}
    /\ report.compliance = "FAIL"

\* Files of one function def f() whose body holds statements of its own and
\* a nested def or class with a body of its own.
NestPool ==
    {DefStmt(1, "f", <<>>, None), ClassStmt(1, "C")}
    \cup UNION {{PassStmt(d), ReturnStmt(d, TRUE), ReturnStmt(d, FALSE), YieldStmt(d)} :
                  d \in {1, 2}}

NestSources ==
    {src \in {<<DefStmt(0, "f", <<>>, None)>> \o rest :
                 rest \in SeqsOf(NestPool, 1, MaxLines - 1)} : GrammarOK(src)}

InitNest ==
    /\ pc = "start"
    /\ source \in NestSources
    /\ style \in Styles
    /\ validate = FALSE
    /\ nodes = <<>>
    /\ generated_docs = <<>>
    /\ report = NoReport
    /\ entities_with_violations = {}
    /\ checkCalls = 0
    /\ printed = <<>>
    /\ raised = None

\* run(file_path, style) on files with nested definitions, validation off.
SpecNest == InitNest /\ [][NextGen]_vars

\* The statements of a definition's own body: those whose nearest enclosing
\* def or class is the definition at line i.
OwnBody(i) == {source[c] : c \in {m \in 1..Len(source) : Parent(source, m) = i}}

\* C13: for every function entity producesReturnValue holds exactly when a
\* return carrying a value is in the function's own body and isGenerator
\* exactly when a yield is in its own body; returns and yields inside nested
\* definitions do not count for the enclosing function.
C13_FlagsFromOwnBodyOnly ==
    Extracted =>
        \A k \in 1..Len(nodes) :
            nodes[k].type = "function" =>
                /\ nodes[k].returns <=>
                      \E st \in OwnBody(nodes[k].lineno) : st.kind = "return" /\ st.value
                /\ nodes[k].yields <=>
                      \E st \in OwnBody(nodes[k].lineno) : st.kind = "yield"

IsReceiver(a) == a.arg \in {"self", "cls"}

\* The declared arguments as (name, annotation) pairs, without a receiver in
\* first position.
DeclaredParams(args) ==
    LET kept == IF Len(args) > 0 /\ IsReceiver(args[1]) THEN Tail(args) ELSE args
    IN [k \in 1..Len(kept) |-> <<kept[k].arg, kept[k].annotation>>]

\* C14: the parameters of a function entity are its declared positional
\* parameters in declaration order, each with its annotation text or none,
\* less exactly a receiver (self or cls) in first position.
C14_ParametersLessFirstReceiver ==
    Extracted =>
        \A k \in 1..Len(nodes) :
            nodes[k].type = "function" =>
                nodes[k].params = DeclaredParams(source[nodes[k].lineno].args)

\* C15: every extracted entity has 1 <= lineno <= end_lineno, and the Module
\* entry starts at line 1 and its span contains the span of every function
\* and class entity of the list.
C15_SpansOrderedAndModuleSpansAll ==
    Extracted =>
        /\ \A k \in 1..Len(nodes) :
              /\ 1 <= nodes[k].lineno
              /\ nodes[k].lineno <= nodes[k].end_lineno
        /\ nodes[1].type = "module"
        /\ nodes[1].lineno = 1
        /\ \A k \in 2..Len(nodes) :
              /\ nodes[1].lineno <= nodes[k].lineno
              /\ nodes[k].end_lineno <= nodes[1].end_lineno

C15_Witness ==
    /\ Returned
    /\ Len(nodes) = 3
    /\ nodes[2].lineno = 1 /\ nodes[2].end_lineno = MaxLines
    /\ nodes[3].lineno = 2 /\ nodes[3].end_lineno = MaxLines
    /\ nodes[1].end_lineno = MaxLines
====
